---- MODULE Spec2Model ----
(***************************************************************************)
(* Pairwise rating and pair selection engine of photo-selector:            *)
(* PairingService (Elo+sigma pairing, choice recording), EloCalculator,    *)
(* ConvergenceService and the directory-mode DirectoryChoiceService.       *)
(*                                                                         *)
(* Float columns (mu, sigma) are held in fixed point, Scale units per Elo  *)
(* point; probabilities are held in 1/Unit.  None is the integer Null.     *)
(***************************************************************************)
EXTENDS Integers, Sequences, FiniteSets, TLC

\* ------------------------------------------------------------------ bounds
\* content hashes of the working set
MaxIds == 3
\* pair requests served after the initial state
MaxRequests == 2
\* outcome submissions handled after the initial state
MaxChoices == 1
\* number of distinct values drawn from the low end of randint(11, 49)
MaxDraws == 1
\* decisive outcomes replayed before the initial state of an aged store
AgedChoices == 57
\* empty pair requests replayed before the initial state of a warm store
WarmRounds == 8
\* hashes of uploaded files: more than target_top_k and than shortlist_k + 1
MaxFiles == 66
\* rated tables of each size handed to the information-gain selection
MaxSeeds == 20

\* --------------------------------------------------------------- settings
Scale == 100
Unit == 10000
Null == -1

epsilon_greedy_pct == 10
skip_inject_probability_pct == 30
skip_resurface_min_rounds == 11
skip_resurface_max_rounds == 49
recent_image_window == 64
recent_pair_window == 128
shortlist_k == 64
initial_mu == 1500
initial_sigma == 350
k_base == 24
sigma0 == 350
sigma_min == 60
k_min == 8
k_max == 48
sigma_decay_pct == 97
target_top_k == 40
min_exposures_per_image == 5
confidence_z == 1
sigma_confident_max == 90
min_boundary_gap == 25
max_rank_swaps_in_window == 1
coverage_required == TRUE

AllIds == <<"a", "b", "c", "d", "e">>
Ids == {AllIds[i] : i \in 1..MaxIds}
Outcomes == {"LEFT", "RIGHT", "SKIP"}
Services == {"s1", "s2"}

\* ------------------------------------------------------------ EloCalculator
Abs(x) == IF x < 0 THEN -x ELSE x
Max2(x, y) == IF x >= y THEN x ELSE y
Min2(x, y) == IF x <= y THEN x ELSE y

\* F(v) with v evaluated once
Then(v, F(_)) == CHOOSE out \in {F(x) : x \in {v}} : TRUE

\* 10^(a/8) in 1/Unit, a \in 0..7
Pow10Eighth == <<10000, 13335, 17783, 23714, 31623, 42170, 56234, 74989>>

\* 10^(d/400) in 1/Unit for a rating difference d >= 0 given in fixed point:
\* d = 400*Scale*q + 50*Scale*a + b, 10^q * 10^(a/8) * exp(b*ln(10)/(400*Scale))
Pow10(d) ==
    LET q == d \div (400 * Scale)
        r == d % (400 * Scale)
        a == r \div (50 * Scale)
        b == r % (50 * Scale)
        x == (b * 57565) \div (1000 * Scale)
        x2 == (x * x) \div Unit
        x3 == (x2 * x) \div Unit
        t == Unit + x + (x2 \div 2) + (x3 \div 6)
        m == (Pow10Eighth[a + 1] * t) \div Unit
    IN  IF q >= 4 THEN Unit * Unit
        ELSE IF q = 3 THEN m * 1000
        ELSE IF q = 2 THEN m * 100
        ELSE IF q = 1 THEN m * 10
        ELSE m

\* E(a) = 1 / (1 + 10^((mu_b - mu_a)/400)), in 1/Unit
expected_score(mu_a, mu_b) ==
    LET d == mu_b - mu_a
        pos(p) == (Unit * Unit) \div (Unit + p)
    IN  IF d >= 0 THEN pos(Pow10(d)) ELSE Unit - pos(Pow10(-d))

\* K_i = clamp(k_base * (sigma_i / sigma0), k_min, k_max), in fixed point
k_factor(sigma) ==
    LET k == (k_base * sigma) \div sigma0
    IN  Max2(k_min * Scale, Min2(k_max * Scale, k))

\* sigma * sigma_decay without the max
sigma_decayed_floorless(sigma) == (sigma * sigma_decay_pct) \div 100

\* max(sigma_min, sigma * sigma_decay)
sigma_decayed(sigma) ==
    Max2(sigma_min * Scale, (sigma * sigma_decay_pct) \div 100)

\* <<new_mu_a, new_sigma_a, new_mu_b, new_sigma_b>>
update_ratings(mu_a, sigma_a, mu_b, sigma_b, outcome) ==
    IF outcome = "SKIP" THEN <<mu_a, sigma_a, mu_b, sigma_b>>
    ELSE
    LET E_a == expected_score(mu_a, mu_b)
        E_b == Unit - E_a
        K_a == k_factor(sigma_a)
        K_b == k_factor(sigma_b)
        gain(K, E) == (K * (Unit - E)) \div Unit
        loss(K, E) == (K * E) \div Unit
        new_mu_a == IF outcome = "LEFT" THEN mu_a + gain(K_a, E_a)
                    ELSE mu_a - loss(K_a, E_a)
        new_mu_b == IF outcome = "LEFT" THEN mu_b - loss(K_b, E_b)
                    ELSE mu_b + gain(K_b, E_b)
    IN  <<new_mu_a, sigma_decayed(sigma_a), new_mu_b, sigma_decayed(sigma_b)>>

\* a draw that may also return skip_resurface_max_rounds + 1
generate_skip_cooldown_one_more ==
    {c \in skip_resurface_min_rounds..(skip_resurface_max_rounds + 1) :
        \/ c < skip_resurface_min_rounds + MaxDraws
        \/ c >= skip_resurface_max_rounds}

\* randint(11, 49); the model draws the low MaxDraws values and the top one
generate_skip_cooldown ==
    {c \in skip_resurface_min_rounds..skip_resurface_max_rounds :
        \/ c < skip_resurface_min_rounds + MaxDraws
        \/ c = skip_resurface_max_rounds}

\* uncertainty_factor * closeness_factor, in fixed point
\* the gain as an exact ratio: uncertainty_factor * closeness_factor is
\* 50 * num / den Elo points
calculate_information_gain(mu_a, sigma_a, mu_b, sigma_b) ==
    LET mu_diff == Abs(mu_a - mu_b)
    IN  [num |-> sigma_a + sigma_b, den |-> 100 * Scale + mu_diff]

\* a / b > c / d for b, d > 0, by the integer parts and then the remainders,
\* so that no product leaves the 32-bit integers
RECURSIVE ratio_greater(_, _, _, _)
ratio_greater(a, b, c, d) ==
    IF a \div b # c \div d THEN a \div b > c \div d
    ELSE IF a % b = 0 THEN FALSE
    ELSE IF c % d = 0 THEN TRUE
    ELSE ratio_greater(d, c % d, b, a % b)

\* gain > best_gain on two such ratios
gain_greater(gain, best_gain) ==
    ratio_greater(gain.num, gain.den, best_gain.num, best_gain.den)

\* -------------------------------------------------------------- data model
NoneId == "none"

\* Image(sha256, mu=initial_mu, sigma=initial_sigma, exposures=0, ...)
new_image ==
    [mu |-> initial_mu * Scale, sigma |-> initial_sigma * Scale,
     exposures |-> 0, likes |-> 0, unlikes |-> 0, skips |-> 0,
     next_eligible_round |-> Null, last_seen_round |-> Null,
     is_archived_hard_no |-> FALSE]

\* the row of sha in the images table, or the temporary unseen Image
create_unseen_image(images, sha) ==
    IF sha \in DOMAIN images THEN images[sha] ELSE new_image

Range(s) == {s[i] : i \in 1..Len(s)}

\* the hashes of uploaded files
UploadIds == [i \in 1..MaxFiles |-> "f" \o ToString(i)]

\* every hash of the model in ascending order
AllHashes == AllIds \o UploadIds

\* the position of each hash in that order
ShaIndex ==
    [sha \in Range(AllHashes) |->
        CHOOSE i \in 1..Len(AllHashes) : AllHashes[i] = sha]

sha_index(sha) == ShaIndex[sha]

\* the ids of a set as a list, in one fixed iteration order
SetToSeq(S) == SelectSeq(AllHashes, LAMBDA sha : sha \in S)

EmptyPools ==
    [UNSEEN |-> <<>>, ACTIVE |-> <<>>,
     SKIPPED_ELIGIBLE |-> <<>>, SKIPPED_COOLDOWN |-> <<>>]

\* one iteration of the classification loop, with the archived test left out
classify_keeps_archived(pools, images, current_round, sha) ==
    IF sha \notin DOMAIN images
    THEN [pools EXCEPT !.UNSEEN = Append(@, sha)]
    ELSE IF images[sha].exposures = 0
    THEN [pools EXCEPT !.UNSEEN = Append(@, sha)]
    ELSE IF images[sha].next_eligible_round # Null
    THEN IF current_round >= images[sha].next_eligible_round
         THEN [pools EXCEPT !.SKIPPED_ELIGIBLE = Append(@, sha)]
         ELSE [pools EXCEPT !.SKIPPED_COOLDOWN = Append(@, sha)]
    ELSE [pools EXCEPT !.ACTIVE = Append(@, sha)]

\* one iteration of the classification loop of _load_eligible_pools
classify(pools, images, current_round, sha) ==
    IF sha \notin DOMAIN images
    THEN [pools EXCEPT !.UNSEEN = Append(@, sha)]
    ELSE IF images[sha].is_archived_hard_no
    THEN pools
    ELSE IF images[sha].exposures = 0
    THEN [pools EXCEPT !.UNSEEN = Append(@, sha)]
    ELSE IF images[sha].next_eligible_round # Null
    THEN IF current_round >= images[sha].next_eligible_round
         THEN [pools EXCEPT !.SKIPPED_ELIGIBLE = Append(@, sha)]
         ELSE [pools EXCEPT !.SKIPPED_COOLDOWN = Append(@, sha)]
    ELSE [pools EXCEPT !.ACTIVE = Append(@, sha)]

RECURSIVE classify_all(_, _, _, _)
classify_all(pools, images, current_round, shas) ==
    IF shas = <<>> THEN pools
    ELSE IF Len(shas) = 1
    THEN classify(pools, images, current_round, Head(shas))
    ELSE Then(classify_all(pools, images, current_round,
                           SubSeq(shas, 1, Len(shas) \div 2)),
              LAMBDA half :
                  classify_all(half, images, current_round,
                               SubSeq(shas, Len(shas) \div 2 + 1, Len(shas))))

\* the pools built from every image row instead of the directory's hashes
load_eligible_pools_of_all_rows(images, current_round, available_sha256s) ==
    classify_all(EmptyPools, images, current_round,
                 SetToSeq(available_sha256s \cup DOMAIN images))

load_eligible_pools(images, current_round, available_sha256s) ==
    classify_all(EmptyPools, images, current_round, SetToSeq(available_sha256s))

\* the filtered pool, however few images remain
suppress_without_fallback(pool, keep_original, recent) ==
    SelectSeq(pool, LAMBDA sha : sha \notin recent)

\* filtered pool, or the original UNSEEN / ACTIVE pool if fewer than 2 remain
suppress(pool, keep_original, recent) ==
    LET filtered == SelectSeq(pool, LAMBDA sha : sha \notin recent)
    IN  IF Len(filtered) < 2 /\ keep_original THEN pool ELSE filtered

apply_recent_suppression(pools, recent_sha256s) ==
    [UNSEEN |-> suppress(pools.UNSEEN, TRUE, recent_sha256s),
     ACTIVE |-> suppress(pools.ACTIVE, TRUE, recent_sha256s),
     SKIPPED_ELIGIBLE |-> suppress(pools.SKIPPED_ELIGIBLE, FALSE, recent_sha256s),
     SKIPPED_COOLDOWN |-> suppress(pools.SKIPPED_COOLDOWN, FALSE, recent_sha256s)]

\* ------------------------------------------------------------ pair selection
NoPair == <<NoneId, NoneId>>

\* tuple(sorted([left, right])) as an order-independent key
pair_key(left, right) == {left, right}

\* random.sample(list, 2): two distinct positions of the list
random_sample2(list) ==
    {<<list[i], list[j]>> : i, j \in 1..Len(list)}
        \ {<<list[i], list[i]>> : i \in 1..Len(list)}

\* twice statistics.median of the mu values of a list of images
median2(images, list) ==
    LET n == Len(list)
        mu(i) == create_unseen_image(images, list[i]).mu
        kth(k) == CHOOSE v \in {mu(i) : i \in 1..n} :
                      /\ Cardinality({i \in 1..n : mu(i) < v}) < k
                      /\ Cardinality({i \in 1..n : mu(i) <= v}) >= k
    IN  IF n % 2 = 1 THEN 2 * kth((n + 1) \div 2)
        ELSE kth(n \div 2) + kth(n \div 2 + 1)

\* the ACTIVE images min() would return under the same score
pick_active_far_from_median_low_sigma(images, active_images) ==
    IF active_images = <<>> THEN {}
    ELSE LET med2 == median2(images, active_images)
             score(sha) == LET img == create_unseen_image(images, sha)
                           IN  20 * img.sigma - Abs(2 * img.mu - med2)
         IN  {sha \in Range(active_images) :
                 \A other \in Range(active_images) : score(sha) <= score(other)}

\* the ACTIVE images max() may return: sigma - |mu - median| / 10 is maximal
pick_active_near_median_high_sigma(images, active_images) ==
    IF active_images = <<>> THEN {}
    ELSE IF Len(active_images) = 1 THEN {active_images[1]}
    ELSE LET med2 == median2(images, active_images)
             score(sha) == LET img == create_unseen_image(images, sha)
                           IN  20 * img.sigma - Abs(2 * img.mu - med2)
         IN  {sha \in Range(active_images) :
                 \A other \in Range(active_images) : score(sha) >= score(other)}

\* shortlist_key(img) < shortlist_key(other): larger sigma first, then the
\* smaller distance of mu to the median (med2 is twice the median)
shortlist_key_less(images, med2, sha, other) ==
    LET a == create_unseen_image(images, sha)
        b == create_unseen_image(images, other)
    IN  \/ a.sigma > b.sigma
        \/ a.sigma = b.sigma /\ Abs(2 * a.mu - med2) < Abs(2 * b.mu - med2)

\* sorted(): sha inserted into a sorted list behind the entries that are not
\* greater than it (the sort is stable)
insert_sorted(images, med2, list, sha) ==
    Then(Cardinality({p \in 1..Len(list) :
                         ~shortlist_key_less(images, med2, sha, list[p])}),
         LAMBDA k :
             SubSeq(list, 1, k) \o <<sha>> \o SubSeq(list, k + 1, Len(list)))

\* sorted(active_images, key=shortlist_key): active_images[lo..hi] inserted
\* one after the other into done
RECURSIVE sorted_by_shortlist_key(_, _, _, _, _, _)
sorted_by_shortlist_key(images, med2, active_images, done, lo, hi) ==
    IF lo > hi THEN done
    ELSE IF lo = hi THEN insert_sorted(images, med2, done, active_images[lo])
    ELSE Then(sorted_by_shortlist_key(images, med2, active_images, done,
                                      lo, (lo + hi) \div 2),
              LAMBDA half :
                  sorted_by_shortlist_key(images, med2, active_images, half,
                                          (lo + hi) \div 2 + 1, hi))

\* the shortlist of _select_by_information_gain
shortlist_of(images, active_images) ==
    LET k == Min2(shortlist_k, Len(active_images))
    IN  IF Len(active_images) > k
        THEN Then(median2(images, active_images), LAMBDA med2 :
                 SubSeq(sorted_by_shortlist_key(images, med2, active_images,
                                                <<>>, 1, Len(active_images)),
                        1, k))
        ELSE active_images

\* a step of the scan that also replaces best_pair on an equal gain
scan_step_replacing_on_equal(images, shortlist, best, i, j) ==
    LET img_a == create_unseen_image(images, shortlist[i])
        img_b == create_unseen_image(images, shortlist[j])
    IN  Then(calculate_information_gain(img_a.mu, img_a.sigma,
                                        img_b.mu, img_b.sigma),
             LAMBDA gain :
                 IF ~gain_greater(best.gain, gain)
                 THEN [gain |-> gain, pair |-> <<shortlist[i], shortlist[j]>>]
                 ELSE best)

\* one step of the scan: [gain, pair] after shortlist[i] met shortlist[j]
scan_step(images, shortlist, best, i, j) ==
    LET img_a == create_unseen_image(images, shortlist[i])
        img_b == create_unseen_image(images, shortlist[j])
    IN  Then(calculate_information_gain(img_a.mu, img_a.sigma,
                                        img_b.mu, img_b.sigma),
             LAMBDA gain :
                 IF gain_greater(gain, best.gain)
                 THEN [gain |-> gain, pair |-> <<shortlist[i], shortlist[j]>>]
                 ELSE best)

\* the inner loop, for j in range(i + 1, len(shortlist)), over j in lo..hi
RECURSIVE scan_row(_, _, _, _, _, _)
scan_row(images, shortlist, best, i, lo, hi) ==
    IF lo > hi THEN best
    ELSE IF lo = hi THEN scan_step(images, shortlist, best, i, lo)
    ELSE Then(scan_row(images, shortlist, best, i, lo, (lo + hi) \div 2),
              LAMBDA half :
                  scan_row(images, shortlist, half, i,
                           (lo + hi) \div 2 + 1, hi))

\* the outer loop, for i in range(len(shortlist)), over i in lo..hi
RECURSIVE scan_rows(_, _, _, _, _)
scan_rows(images, shortlist, best, lo, hi) ==
    IF lo > hi THEN best
    ELSE IF lo = hi
    THEN scan_row(images, shortlist, best, lo, lo + 1, Len(shortlist))
    ELSE Then(scan_rows(images, shortlist, best, lo, (lo + hi) \div 2),
              LAMBDA half :
                  scan_rows(images, shortlist, half,
                            (lo + hi) \div 2 + 1, hi))

\* _select_by_information_gain: the best_pair of the (i < j) scan of the
\* shortlist, as a set of one pair
select_by_information_gain(images, active_images) ==
    IF Len(active_images) < 2 THEN {NoPair}
    ELSE Then(shortlist_of(images, active_images), LAMBDA shortlist :
              {scan_rows(images, shortlist,
                         [gain |-> [num |-> -1, den |-> 1], pair |-> NoPair],
                         1, Len(shortlist)).pair})

\* _select_random_pair drawing twice with replacement
select_random_pair_with_replacement(pools) ==
    LET all_images == pools.UNSEEN \o pools.ACTIVE \o pools.SKIPPED_ELIGIBLE
    IN  IF Len(all_images) >= 2
        THEN {<<all_images[i], all_images[j]>> : i, j \in 1..Len(all_images)}
        ELSE {NoPair}

\* _select_random_pair: random.sample over the three eligible pools
select_random_pair(pools) ==
    LET all_images == pools.UNSEEN \o pools.ACTIVE \o pools.SKIPPED_ELIGIBLE
    IN  IF Len(all_images) >= 2 THEN random_sample2(all_images) ELSE {NoPair}

\* final validation of _select_pair: no self-pairing and no recent repeats
validate(pair, recent_pairs) ==
    IF /\ pair[1] # NoneId /\ pair[2] # NoneId /\ pair[1] # pair[2]
       /\ pair_key(pair[1], pair[2]) \notin Range(recent_pairs)
    THEN pair ELSE NoPair

\* the pairs _select_pair may return, given the outcome of the two random()
\* tests (explore: epsilon-greedy fired, inject: skip injection fired)
select_pair(images, pools, recent_pairs, explore, inject) ==
    IF explore THEN select_random_pair(pools)
    ELSE
    LET actives == pick_active_near_median_high_sigma(images, pools.ACTIVE)
        strategy1 ==
            IF pools.UNSEEN = <<>> THEN {}
            ELSE IF actives # {}
            THEN {<<u, a>> : u \in Range(pools.UNSEEN), a \in actives}
            ELSE IF Len(pools.UNSEEN) >= 2 THEN random_sample2(pools.UNSEEN)
            ELSE {}
        provisional == select_by_information_gain(images, pools.ACTIVE)
        injected(p) ==
            IF pools.SKIPPED_ELIGIBLE # <<>> /\ inject
               /\ p[1] # NoneId /\ p[2] # NoneId
            THEN {<<s, p[2]>> : s \in Range(pools.SKIPPED_ELIGIBLE)}
                 \cup {<<p[1], s>> : s \in Range(pools.SKIPPED_ELIGIBLE)}
            ELSE {p}
    IN  IF strategy1 # {} THEN strategy1
        ELSE {validate(q, recent_pairs) :
                 q \in UNION {injected(p) : p \in provisional}}

\* ---------------------------------------------------------- choice recording
\* A store is [images, choices, round, kv]: the images table (a function from
\* the hashes that have a row), the choices table (a list of Choice rows), the
\* round of the app_state row id = 1 and the counter of the app_state row
\* key = "current_round" (each Null when the row is missing).
\* A transaction is [c |-> committed store, s |-> the session's view of it].
begin(db) == [c |-> db, s |-> db]

commit(txn) == txn.s

\* an exception leaves the session uncommitted
raise(txn) == txn.c

with_image(txn, sha) ==
    IF sha \in DOMAIN txn.s.images THEN txn
    ELSE [txn EXCEPT !.s.images = [x \in (DOMAIN @) \cup {sha} |->
                                     IF x = sha THEN new_image ELSE @[x]]]

\* _get_or_create_image followed by a commit of the new row
get_or_create_image_committing(txn, sha) ==
    LET t == with_image(txn, sha) IN [c |-> t.s, s |-> t.s]

\* _get_or_create_image: db.add(image), pending in the session
get_or_create_image(txn, sha) == with_image(txn, sha)

\* _get_current_round: the round of the app_state row, 0 if it is missing
get_current_round(db) == IF db.round = Null THEN 0 ELSE db.round

\* a Choice row that names the left image as winner of a skipped pair
Choice_with_winner_on_skip(round_num, left, right, outcome) ==
    [round |-> round_num, left_sha256 |-> left, right_sha256 |-> right,
     winner_sha256 |-> IF outcome = "RIGHT" THEN right ELSE left,
     skipped |-> (outcome = "SKIP")]

Choice(round_num, left, right, outcome) ==
    [round |-> round_num, left_sha256 |-> left, right_sha256 |-> right,
     winner_sha256 |-> IF outcome = "SKIP" THEN NoneId
                       ELSE IF outcome = "LEFT" THEN left ELSE right,
     skipped |-> (outcome = "SKIP")]

add_choice(txn, choice) == [txn EXCEPT !.s.choices = Append(@, choice)]

\* attribute writes on Image objects, applied in program order
Set(sha, field, value) == [sha |-> sha, field |-> field, inc |-> FALSE, value |-> value]

Inc(sha, field) == [sha |-> sha, field |-> field, inc |-> TRUE, value |-> 1]

write(images, w) ==
    [images EXCEPT ![w.sha] =
        [@ EXCEPT ![w.field] = IF w.inc THEN @ + w.value ELSE w.value]]

RECURSIVE write_all(_, _, _)
write_all(images, writes, i) ==
    IF i > Len(writes) THEN images
    ELSE Then(write(images, writes[i]), LAMBDA nxt : write_all(nxt, writes, i + 1))

\* _handle_choice; left_image and right_image are one object when left = right
handle_choice(txn, left, right, outcome) ==
    LET i0 == txn.s.images
        current_round == get_current_round(txn.s)
        writes(r) ==
            <<Set(left, "mu", r[1]), Set(left, "sigma", r[2]),
              Set(right, "mu", r[3]), Set(right, "sigma", r[4]),
              Inc(left, "exposures"), Inc(right, "exposures"),
              IF outcome = "LEFT" THEN Inc(left, "likes") ELSE Inc(right, "likes"),
              IF outcome = "LEFT" THEN Inc(right, "unlikes") ELSE Inc(left, "unlikes"),
              Set(left, "next_eligible_round", Null),
              Set(right, "next_eligible_round", Null),
              Set(left, "last_seen_round", current_round),
              Set(right, "last_seen_round", current_round)>>
    IN  Then(writes(update_ratings(i0[left].mu, i0[left].sigma,
                                   i0[right].mu, i0[right].sigma, outcome)),
             LAMBDA ws : [txn EXCEPT !.s.images = write_all(@, ws, 1)])

\* a skip that also lowers the sigma of both images
handle_skip_decaying_sigma(txn, left, right, c_left, c_right) ==
    LET current_round == get_current_round(txn.s)
    IN  Then(<<Inc(left, "skips"), Inc(right, "skips"),
               Set(left, "sigma", sigma_decayed(txn.s.images[left].sigma)),
               Set(right, "sigma", sigma_decayed(txn.s.images[right].sigma)),
               Set(left, "next_eligible_round", current_round + c_left),
               Set(right, "next_eligible_round", current_round + c_right)>>,
             LAMBDA ws : [txn EXCEPT !.s.images = write_all(@, ws, 1)])

\* a skip that also counts as an exposure of both images
handle_skip_counting_exposure(txn, left, right, c_left, c_right) ==
    LET current_round == get_current_round(txn.s)
    IN  Then(<<Inc(left, "skips"), Inc(right, "skips"),
               Inc(left, "exposures"), Inc(right, "exposures"),
               Set(left, "next_eligible_round", current_round + c_left),
               Set(right, "next_eligible_round", current_round + c_right)>>,
             LAMBDA ws : [txn EXCEPT !.s.images = write_all(@, ws, 1)])

\* _handle_skip with the two cooldown draws c_left and c_right
handle_skip(txn, left, right, c_left, c_right) ==
    LET current_round == get_current_round(txn.s)
    IN  Then(<<Inc(left, "skips"), Inc(right, "skips"),
               Set(left, "next_eligible_round", current_round + c_left),
               Set(right, "next_eligible_round", current_round + c_right)>>,
             LAMBDA ws : [txn EXCEPT !.s.images = write_all(@, ws, 1)])

\* PairingService.record_choice: [ok, db], db the committed store afterwards.
\* outcome is validated after both images were fetched or created; fail says
\* that a statement of the update raises (a lost connection, a constraint).
record_choice(db, round_num, left, right, outcome, c_left, c_right, fail) ==
    Then(get_or_create_image(begin(db), left), LAMBDA t1 :
    Then(get_or_create_image(t1, right), LAMBDA t2 :
      IF outcome \notin Outcomes
      THEN [ok |-> FALSE, db |-> raise(t2)]
      ELSE
    Then(add_choice(t2, Choice(round_num, left, right, outcome)), LAMBDA t3 :
    Then(IF outcome = "SKIP" THEN handle_skip(t3, left, right, c_left, c_right)
         ELSE handle_choice(t3, left, right, outcome), LAMBDA t4 :
      IF fail THEN [ok |-> FALSE, db |-> raise(t4)]
      ELSE [ok |-> TRUE, db |-> commit(t4)]))))

\* record_choice up to its commit: the session after both images were fetched
\* or created, the Choice was added and the attributes were written
record_choice_pending(db, round_num, left, right, outcome, c_left, c_right) ==
    Then(get_or_create_image(begin(db), left), LAMBDA t1 :
    Then(get_or_create_image(t1, right), LAMBDA t2 :
    Then(add_choice(t2, Choice(round_num, left, right, outcome)), LAMBDA t3 :
         IF outcome = "SKIP" THEN handle_skip(t3, left, right, c_left, c_right)
         ELSE handle_choice(t3, left, right, outcome))))

Columns == DOMAIN new_image

\* the rows a session holds, out of a table
rows_of(table, shas) == [sha \in shas \cap DOMAIN table |-> table[sha]]

\* the statements db.commit() flushes, applied to the committed table: an
\* INSERT for each added Image, and for each loaded Image an UPDATE that sets
\* the columns whose attribute differs from the loaded value to the value the
\* session computed
flush_images(table, loaded, dirty) ==
    [sha \in DOMAIN table \cup DOMAIN dirty |->
        IF sha \notin DOMAIN dirty THEN table[sha]
        ELSE IF sha \notin DOMAIN loaded THEN dirty[sha]
        ELSE [col \in Columns |->
                 IF dirty[sha][col] # loaded[sha][col] THEN dirty[sha][col]
                 ELSE table[sha][col]]]

\* ---------------------------------------------------- DirectoryChoiceService
\* _ensure_image_record: db.add(image) and db.flush(), pending in the session
ensure_image_record(txn, sha) == with_image(txn, sha)

\* DirectoryChoiceService._get_current_round: [round, txn].  A missing row is
\* added with 0 and committed at once, with all that is pending in the session.
directory_get_current_round(txn) ==
    IF txn.s.kv = Null
    THEN Then([txn EXCEPT !.s.kv = 0],
              LAMBDA t : [round |-> 0, txn |-> begin(commit(t))])
    ELSE [round |-> txn.s.kv, txn |-> txn]

\* _increment_round: the counter after the increment is txn.s.kv
increment_round(txn) == [txn EXCEPT !.s.kv = IF @ = Null THEN 1 ELSE @ + 1]

\* the exposure and preference writes of DirectoryChoiceService.record_choice
directory_writes(left, right, selection) ==
    <<Inc(left, "exposures"), Inc(right, "exposures")>> \o
    (IF selection = "LEFT" THEN <<Inc(left, "likes"), Inc(right, "unlikes")>>
     ELSE IF selection = "RIGHT" THEN <<Inc(right, "likes"), Inc(left, "unlikes")>>
     ELSE IF selection = "SKIP" THEN <<Inc(left, "skips"), Inc(right, "skips")>>
     ELSE <<>>)

\* the requeue of two skipped images, c_left and c_right the two randint draws
directory_requeue(txn, left, right, c_left, c_right) ==
    Then(directory_get_current_round(txn), LAMBDA r :
         [r.txn EXCEPT !.s.images = write_all(@,
             <<Set(left, "next_eligible_round", r.round + c_left),
               Set(right, "next_eligible_round", r.round + c_right)>>, 1)])

\* DirectoryChoiceService.record_choice: [ok, next_round, db]
directory_record_choice(db, left, right, selection, round_num, c_left, c_right) ==
    Then(ensure_image_record(begin(db), left), LAMBDA t1 :
    Then(ensure_image_record(t1, right), LAMBDA t2 :
    Then(add_choice(t2, Choice(round_num, left, right, selection)), LAMBDA t3 :
    Then([t3 EXCEPT !.s.images =
              write_all(@, directory_writes(left, right, selection), 1)],
         LAMBDA t4 :
    Then(IF selection = "SKIP"
         THEN directory_requeue(t4, left, right, c_left, c_right) ELSE t4,
         LAMBDA t5 :
    Then(increment_round(t5), LAMBDA t6 :
         [ok |-> TRUE, next_round |-> t6.s.kv, db |-> commit(t6)]))))))

\* ----------------------------------------------------------- DirectoryService
\* DirectoryService._get_current_round: [round, db]; a missing row is added
\* with 0 and committed
directory_service_get_current_round(db) ==
    IF db.kv = Null THEN [round |-> 0, db |-> [db EXCEPT !.kv = 0]]
    ELSE [round |-> db.kv, db |-> db]

\* _update_eligible_skipped_images: the rows whose next_eligible_round has
\* passed lose it, and the session commits
update_eligible_skipped_images(db, current_round) ==
    [db EXCEPT !.images =
        [sha \in DOMAIN @ |->
            IF /\ @[sha].next_eligible_round # Null
               /\ @[sha].next_eligible_round <= current_round
            THEN [@[sha] EXCEPT !.next_eligible_round = Null]
            ELSE @[sha]]]

\* _get_previous_round_sha256s
get_previous_round_sha256s(db, round_num) ==
    IF round_num < 0 THEN {}
    ELSE UNION {{db.choices[i].left_sha256, db.choices[i].right_sha256} :
                   i \in {j \in 1..Len(db.choices) :
                             db.choices[j].round = round_num}}

\* exposure_count of a file in _select_by_exposure
exposure_count(image_stats, sha) ==
    IF sha \in DOMAIN image_stats THEN image_stats[sha].exposures ELSE 0

\* the lists the shuffled exposure groups can yield: count files taken from
\* the groups of fewest exposures first
RECURSIVE take_by_exposure(_, _, _)
take_by_exposure(files, image_stats, count) ==
    IF count = 0 \/ files = {} THEN {<<>>}
    ELSE UNION {{<<x>> \o rest :
                    rest \in take_by_exposure(files \ {x}, image_stats,
                                              count - 1)} :
                x \in {y \in files :
                          \A z \in files : exposure_count(image_stats, y)
                                             <= exposure_count(image_stats, z)}}

\* _select_by_exposure: the lists it can return
select_by_exposure(files, image_stats, count) ==
    IF Len(files) <= count THEN {files}
    ELSE take_by_exposure(Range(files), image_stats, count)

\* _get_eligible_skipped_files
get_eligible_skipped_files(available_files, image_stats) ==
    SelectSeq(available_files,
              LAMBDA sha : /\ sha \in DOMAIN image_stats
                           /\ image_stats[sha].next_eligible_round = Null
                           /\ image_stats[sha].skips > 0)

\* _select_image_pair: the pairs it can return; inject is the outcome of
\* random.random() < 0.3
select_image_pair(db, image_files, image_stats, current_round, inject) ==
    IF Len(image_files) < 2 THEN {NoPair}
    ELSE
    LET previous_round_sha256s == get_previous_round_sha256s(db, current_round - 1)
        filtered == SelectSeq(image_files,
                              LAMBDA sha : sha \notin previous_round_sha256s)
        available_files == IF Len(filtered) < 2 THEN image_files ELSE filtered
        eligible_skipped == get_eligible_skipped_files(available_files, image_stats)
        remaining(skipped_file) ==
            SelectSeq(available_files, LAMBDA sha : sha # skipped_file)
        injected ==
            UNION {UNION {{<<skipped_file, other[1]>>, <<other[1], skipped_file>>} :
                             other \in select_by_exposure(remaining(skipped_file),
                                                          image_stats, 1)} :
                      skipped_file \in {f \in Range(eligible_skipped) :
                                           remaining(f) # <<>>}}
        normal ==
            {IF Len(selected_files) >= 2
             THEN <<selected_files[1], selected_files[2]>> ELSE NoPair :
                 selected_files \in select_by_exposure(available_files,
                                                       image_stats, 2)}
    IN  IF eligible_skipped # <<>> /\ inject
        THEN injected \cup
             (IF \E f \in Range(eligible_skipped) : remaining(f) = <<>>
              THEN normal ELSE {})
        ELSE normal

\* get_image_pair_from_directory: the [db, pair, round] it can end with, db
\* the committed store afterwards and image_files the files of the directory
get_image_pair_from_directory(db, image_files, inject) ==
    LET r == directory_service_get_current_round(db)
    IN  IF Len(image_files) < 2
        THEN {[db |-> r.db, pair |-> NoPair, round |-> r.round]}
        ELSE Then(update_eligible_skipped_images(r.db, r.round), LAMBDA updated :
                 {[db |-> updated, pair |-> pair, round |-> r.round] :
                     pair \in select_image_pair(updated, image_files,
                                                updated.images, r.round, inject)})

\* --------------------------------------------------------- ConvergenceService
\* float('inf')
Inf == 1000000 * Scale

\* ORDER BY mu DESC, sigma ASC, exposures DESC, sha256 ASC
ordered_before(imgs, x, y) ==
    LET a == imgs[x]
        b == imgs[y]
    IN  \/ a.mu > b.mu
        \/ a.mu = b.mu /\ a.sigma < b.sigma
        \/ a.mu = b.mu /\ a.sigma = b.sigma /\ a.exposures > b.exposures
        \/ /\ a.mu = b.mu /\ a.sigma = b.sigma /\ a.exposures = b.exposures
           /\ sha_index(x) < sha_index(y)

\* _get_ordered_images: the hashes of the images table by rank
get_ordered_images(imgs) ==
    Then({<<x, Cardinality({y \in DOMAIN imgs : ordered_before(imgs, y, x)})>> :
             x \in DOMAIN imgs},
         LAMBDA placed :
             [i \in 1..Cardinality(DOMAIN imgs) |->
                 (CHOOSE p \in placed : p[2] = i - 1)[1]])

\* _compute_coverage: counts over the rows of the images table
compute_coverage(imgs) ==
    LET unseen_count == Cardinality({x \in DOMAIN imgs : imgs[x].exposures = 0})
        seen_count == Cardinality({x \in DOMAIN imgs : imgs[x].exposures > 0})
    IN  [unseen_count |-> unseen_count, seen_count |-> seen_count,
         total_count |-> unseen_count + seen_count,
         coverage_pct |-> IF unseen_count + seen_count > 0
                          THEN (seen_count * 100 * Scale)
                                   \div (unseen_count + seen_count)
                          ELSE 0,
         coverage_complete |-> (unseen_count = 0)]

\* _analyze_boundary_gap: ci_lower(k) - ci_upper(k+1) and the larger sigma
analyze_boundary_gap(imgs, ordered_images) ==
    IF target_top_k >= Cardinality(DOMAIN ordered_images)
    THEN [boundary_gap |-> Inf, max_boundary_sigma |-> 0]
    ELSE Then(<<imgs[ordered_images[target_top_k]],
                imgs[ordered_images[target_top_k + 1]]>>,
              LAMBDA at : LET k_image == at[1]
                              k_plus_1_image == at[2]
         IN  [boundary_gap |->
                  (k_image.mu - confidence_z * k_image.sigma)
                  - (k_plus_1_image.mu + confidence_z * k_plus_1_image.sigma),
              max_boundary_sigma |-> Max2(k_image.sigma, k_plus_1_image.sigma)])

\* _analyze_stability: the swap count is a fixed 0
analyze_stability(current_round) ==
    [top_k_swaps_in_window |-> 0, stability_attained |-> TRUE]

\* _evaluate_predicates
evaluate_predicates(coverage, boundary, stability) ==
    [coverage_complete |-> (~coverage_required) \/ coverage.coverage_complete,
     exposures_floor_met |-> TRUE,
     confidence_separation |->
         /\ boundary.boundary_gap >= min_boundary_gap * Scale
         /\ boundary.max_boundary_sigma <= sigma_confident_max * Scale,
     stability_attained |->
         stability.top_k_swaps_in_window <= max_rank_swaps_in_window]

\* _decide_auto_finish: should_auto_finish
decide_auto_finish(predicates) ==
    /\ predicates.coverage_complete
    /\ predicates.exposures_floor_met
    /\ (predicates.confidence_separation \/ predicates.stability_attained)

\* _calculate_component_progress: the four progress values, in 1/Scale percent
calculate_component_progress(imgs, coverage, boundary, stability) ==
    LET well_exposed ==
            Cardinality({x \in DOMAIN imgs :
                            imgs[x].exposures >= min_exposures_per_image})
        gap_progress ==
            Min2(100 * Scale, (boundary.boundary_gap * 100) \div min_boundary_gap)
        sigma_progress ==
            Max2(0, Min2(100 * Scale,
                         ((sigma_confident_max * Scale
                               - boundary.max_boundary_sigma) * 100)
                             \div sigma_confident_max))
    IN  [coverage |-> coverage.coverage_pct,
         exposure |-> (well_exposed * 100 * Scale)
                          \div Max2(1, Cardinality(DOMAIN imgs)),
         confidence |-> IF boundary.boundary_gap = Inf THEN 100 * Scale
                        ELSE (gap_progress + sigma_progress) \div 2,
         stability |-> IF stability.stability_attained THEN 75 * Scale
                       ELSE 40 * Scale]

\* round(x, 1) of a value in 1/Scale: the nearest tenth, a tie to the even one
round1(x) ==
    LET tenths == x \div 10
        rest == x % 10
    IN  10 * (IF rest > 5 \/ (rest = 5 /\ tenths % 2 = 1) THEN tenths + 1
              ELSE tenths)

\* get_portfolio_progress: overall_progress and the component progress values
get_portfolio_progress(db) ==
    Then(calculate_component_progress(
             db.images,
             compute_coverage(db.images),
             analyze_boundary_gap(db.images, get_ordered_images(db.images)),
             analyze_stability(get_current_round(db))),
         LAMBDA components :
             [overall_progress |->
                  round1((30 * components.coverage + 25 * components.exposure
                          + 25 * components.confidence
                          + 20 * components.stability) \div 100),
              components |-> components])

\* _get_current_round written as DirectoryChoiceService writes it: a missing
\* row is added and committed
convergence_get_current_round_creating(db) ==
    [round |-> get_current_round(db),
     db |-> [db EXCEPT !.round = IF @ = Null THEN 0 ELSE @]]

\* ConvergenceService._get_current_round: [round, db], a select on app_state
convergence_get_current_round(db) ==
    [round |-> get_current_round(db), db |-> db]

\* get_convergence_state: the auto-finish decision for a store
get_convergence_state(db) ==
    decide_auto_finish(
        evaluate_predicates(
            compute_coverage(db.images),
            analyze_boundary_gap(db.images, get_ordered_images(db.images)),
            analyze_stability(get_current_round(db))))

\* --------------------------------------------------------------- the state
VARIABLES
    images,          \* images table: hash -> row, for the hashes that have one
    choices,         \* choices table, in insertion order
    app_round,       \* app_state.round of the row id = 1, Null if missing
    app_state_kv,    \* val["current_round"] of the row key = "current_round"
    row_lock,        \* the service holding SELECT ... FOR UPDATE on that row
    available,       \* directory_service.get_all_sha256s()
    recent_images,   \* per PairingService: deque(maxlen=recent_image_window)
    recent_pairs,    \* per PairingService: deque(maxlen=recent_pair_window)
    pc,              \* per PairingService: position inside get_next_pair
    app_state_read,  \* per PairingService: round read by _bump_round's select
    issued_rounds,   \* round numbers returned by get_next_pair so far
    last,            \* the call handled by the last step and its response
    prev,            \* the committed store before that call
    start,           \* round and number of choices of the initial store
    session          \* per database session: its record_choice before commit

vars == <<images, choices, app_round, app_state_kv, row_lock, available,
          recent_images, recent_pairs, pc, app_state_read, issued_rounds, last,
          prev, start, session>>

Store ==
    [images |-> images, choices |-> choices, round |-> app_round,
     kv |-> app_state_kv]

EmptyImages == [sha \in {} |-> new_image]

EmptyStore(round) ==
    [images |-> EmptyImages, choices |-> <<>>, round |-> round, kv |-> Null]

\* the progress of a call that does not compute one
NoProgress ==
    [overall_progress |-> 0,
     components |-> [coverage |-> 0, exposure |-> 0, confidence |-> 0,
                     stability |-> 0]]

NoCall ==
    [op |-> "init", svc |-> "none", round |-> Null, left |-> NoneId,
     right |-> NoneId, outcome |-> "none", ok |-> TRUE, explore |-> FALSE,
     inject |-> FALSE, dup |-> FALSE, auto_finish |-> FALSE,
     progress |-> NoProgress]

Sessions == {"t1", "t2"}

\* a session with no record_choice under way
NoSession ==
    [pc |-> "idle", choice |-> Choice(Null, NoneId, NoneId, "SKIP"),
     loaded |-> EmptyImages, dirty |-> EmptyImages]

\* app_state.round after _bump_round's commit
bump_round(round) == IF round = Null THEN 1 ELSE round + 1

\* a deque(maxlen): append, dropping the oldest entry when full
deque_append(q, x, maxlen) ==
    IF Len(q) >= maxlen THEN Append(Tail(q), x) ELSE Append(q, x)

\* ------------------------------------------------ stores the program can be in
\* Stores are produced by replaying calls of the program on an empty store:
\* each pair request is served by its own PairingService (as the /pair route
\* does), so it leaves only the bumped round behind.
apply_call(db, call) ==
    IF call.op = "pair" THEN [db EXCEPT !.round = bump_round(@)]
    ELSE IF call.op = "directory_choice"
    THEN directory_record_choice(db, call.left, call.right, call.outcome,
                                 get_current_round(db), call.c_left,
                                 call.c_right).db
    ELSE record_choice(db, get_current_round(db), call.left, call.right,
                       call.outcome, call.c_left, call.c_right, FALSE).db

\* the store after calls[lo..hi]; each intermediate store is computed once
RECURSIVE ReplayRange(_, _, _, _)
ReplayRange(db, calls, lo, hi) ==
    IF lo > hi THEN db
    ELSE IF lo = hi
    THEN CHOOSE out \in {apply_call(d, calls[lo]) : d \in {db}} : TRUE
    ELSE LET mid == (lo + hi) \div 2
         IN  CHOOSE out \in {ReplayRange(half, calls, mid + 1, hi) :
                             half \in {ReplayRange(db, calls, lo, mid)}} : TRUE

Replay(db, calls) == ReplayRange(db, calls, 1, Len(calls))

PairCall == [op |-> "pair"]

ChoiceCall(left, right, outcome, c_left, c_right) ==
    [op |-> "choice", left |-> left, right |-> right, outcome |-> outcome,
     c_left |-> c_left, c_right |-> c_right]

DirectoryChoiceCall(left, right, selection, c_left, c_right) ==
    [op |-> "directory_choice", left |-> left, right |-> right,
     outcome |-> selection, c_left |-> c_left, c_right |-> c_right]

Repeat(calls, n) == [i \in 1..(n * Len(calls)) |-> calls[((i - 1) % Len(calls)) + 1]]

\* a long session on two images: AgedChoices decisive outcomes
AgedStore ==
    Replay(EmptyStore(0),
           Repeat(<<PairCall, ChoiceCall("a", "b", "LEFT", 0, 0)>>, AgedChoices))

\* every image rated, c skipped with the shortest cooldown, then WarmRounds
\* further pair requests
WarmStore ==
    Replay(EmptyStore(0),
           <<PairCall, ChoiceCall("a", "c", "LEFT", 0, 0),
             PairCall, ChoiceCall("b", "c", "SKIP", skip_resurface_max_rounds,
                                  skip_resurface_min_rounds),
             PairCall, ChoiceCall("a", "b", "RIGHT", 0, 0)>>
           \o Repeat(<<PairCall>>, WarmRounds))

\* an image marked as a hard no: the column is read by the pairing service
\* and written outside of it
archive(db, sha) == [db EXCEPT !.images[sha].is_archived_hard_no = TRUE]

\* the warm store with b archived
ArchivedStore == archive(WarmStore, "b")

\* a session served by GET /pair and POST /choice: a and b skipped, a with
\* the shortest cooldown, then decisive outcomes until that cooldown is over
SkippedStore ==
    Replay(EmptyStore(Null),
           <<PairCall, DirectoryChoiceCall("a", "b", "SKIP",
                                           skip_resurface_min_rounds,
                                           skip_resurface_max_rounds)>>
           \o Repeat(<<PairCall, DirectoryChoiceCall("b", "c", "LEFT", 0, 0),
                       PairCall, DirectoryChoiceCall("c", "a", "RIGHT", 0, 0)>>,
                     (skip_resurface_min_rounds + 1) \div 2))

\* sigma after a number of decisive outcomes
RECURSIVE sigma_after(_)
sigma_after(exposures) ==
    IF exposures = 0 THEN initial_sigma * Scale
    ELSE sigma_decayed(sigma_after(exposures - 1))

\* a table of n rated images: images one or two decisive outcomes old with
\* mu values spread evenly above initial_mu, and for odd seeds two older
\* images that kept mu = initial_mu
RatedTable(n, seed) ==
    LET older == IF seed % 2 = 1
                 THEN {(seed % n) + 1, ((seed + n \div 2) % n) + 1} ELSE {}
        exposures(i) == IF i \in older THEN 3 ELSE 1 + ((i + seed) % 2)
        mu(i) == IF i \in older THEN initial_mu * Scale
                 ELSE (initial_mu + i * (5 + (seed % 7))) * Scale
    IN  [sha \in {UploadIds[i] : i \in 1..n} |->
            Then(sha_index(sha) - Len(AllIds), LAMBDA i :
                [new_image EXCEPT !.mu = mu(i),
                                  !.sigma = sigma_after(exposures(i)),
                                  !.exposures = exposures(i),
                                  !.likes = IF i \in older THEN 1 ELSE exposures(i),
                                  !.unlikes = IF i \in older THEN 2 ELSE 0,
                                  !.last_seen_round = 0])]

\* the sizes of those tables: a few images, and more than the shortlist holds
RatedSizes == {3, 5, shortlist_k + 1, shortlist_k + 2}

RatedTables == {RatedTable(n, seed) : n \in RatedSizes, seed \in 1..MaxSeeds}

\* n uploaded images, each shown once: a session of decisive outcomes on the
\* pairs (f1, f2), (f3, f4), ..., the last image meeting the first one again
\* if n is odd
CoveredStore(n) ==
    Replay(EmptyStore(0),
           [i \in 1..(2 * ((n + 1) \div 2)) |->
               IF i % 2 = 1 THEN PairCall
               ELSE ChoiceCall(UploadIds[i - 1],
                               UploadIds[IF i <= n THEN i ELSE 1],
                               IF i % 4 = 0 THEN "LEFT" ELSE "RIGHT", 0, 0)])

\* fewer images than target_top_k, and one and three more
CoveredStores ==
    {CoveredStore(n) :
        n \in {target_top_k - 3, target_top_k + 1, target_top_k + 3}}

WorkingSets == {{AllIds[i] : i \in 1..n} : n \in 1..MaxIds}

InitialStores ==
    {EmptyStore(Null), EmptyStore(0), AgedStore, WarmStore, ArchivedStore}

Init ==
    /\ \E db \in InitialStores :
        /\ images = db.images
        /\ choices = db.choices
        /\ app_round = db.round
        /\ app_state_kv = db.kv
        /\ prev = db
        /\ start = [round |-> get_current_round(db), choices |-> Len(db.choices)]
        /\ issued_rounds = 1..get_current_round(db)
        /\ available \in IF DOMAIN db.images = {} THEN WorkingSets ELSE {Ids}
    /\ row_lock = "none"
    /\ recent_images = [s \in Services |-> <<>>]
    /\ recent_pairs = [s \in Services |-> <<>>]
    /\ pc = [s \in Services |-> "idle"]
    /\ app_state_read = [s \in Services |-> Null]
    /\ last = NoCall
    /\ session = [t \in Sessions |-> NoSession]

\* a rated table whose images are all in the directory
InitRated ==
    /\ images \in RatedTables
    /\ choices = <<>>
    /\ app_round = 0
    /\ app_state_kv = Null
    /\ available = DOMAIN images
    /\ prev = Store
    /\ start = [round |-> 0, choices |-> 0]
    /\ issued_rounds = {}
    /\ row_lock = "none"
    /\ recent_images = [s \in Services |-> <<>>]
    /\ recent_pairs = [s \in Services |-> <<>>]
    /\ pc = [s \in Services |-> "idle"]
    /\ app_state_read = [s \in Services |-> Null]
    /\ last = NoCall
    /\ session = [t \in Sessions |-> NoSession]

\* a store of the directory-based services, empty or after a session
InitDirectory ==
    /\ \E db \in {EmptyStore(Null), SkippedStore} :
        /\ images = db.images
        /\ choices = db.choices
        /\ app_round = db.round
        /\ app_state_kv = db.kv
        /\ prev = db
        /\ start = [round |-> get_current_round(db), choices |-> Len(db.choices)]
        /\ issued_rounds = 1..get_current_round(db)
    /\ available \in WorkingSets
    /\ row_lock = "none"
    /\ recent_images = [s \in Services |-> <<>>]
    /\ recent_pairs = [s \in Services |-> <<>>]
    /\ pc = [s \in Services |-> "idle"]
    /\ app_state_read = [s \in Services |-> Null]
    /\ last = NoCall
    /\ session = [t \in Sessions |-> NoSession]

\* a store whose images were all shown, and a directory of further images
InitCovered ==
    /\ \E db \in CoveredStores :
        /\ images = db.images
        /\ choices = db.choices
        /\ app_round = db.round
        /\ app_state_kv = db.kv
        /\ prev = db
        /\ start = [round |-> get_current_round(db), choices |-> Len(db.choices)]
        /\ issued_rounds = 1..get_current_round(db)
    /\ available = Ids
    /\ row_lock = "none"
    /\ recent_images = [s \in Services |-> <<>>]
    /\ recent_pairs = [s \in Services |-> <<>>]
    /\ pc = [s \in Services |-> "idle"]
    /\ app_state_read = [s \in Services |-> Null]
    /\ last = NoCall
    /\ session = [t \in Sessions |-> NoSession]

\* ----------------------------------------------------------------- actions
\* PairingService(db): a new service object with empty ring buffers
NewService(s) ==
    /\ UNCHANGED session
    /\ pc[s] = "idle"
    /\ recent_images[s] # <<>>
    /\ recent_images' = [recent_images EXCEPT ![s] = <<>>]
    /\ recent_pairs' = [recent_pairs EXCEPT ![s] = <<>>]
    /\ last' = [NoCall EXCEPT !.op = "new_service", !.svc = s]
    /\ prev' = Store
    /\ UNCHANGED <<images, choices, app_round, app_state_kv, row_lock,
                   available, pc, app_state_read, issued_rounds, start>>

\* get_next_pair, first half of _bump_round: select ... with_for_update().
\* An existing row is locked (the select waits while another holds it); a
\* missing row locks nothing.
BumpSelect(s) ==
    /\ UNCHANGED session
    /\ pc[s] = "idle"
    /\ get_current_round(Store) + Cardinality({t \in Services : pc[t] = "bumping"})
           < start.round + MaxRequests
    /\ app_round # Null => row_lock = "none"
    /\ row_lock' = IF app_round # Null THEN s ELSE row_lock
    /\ app_state_read' = [app_state_read EXCEPT ![s] = app_round]
    /\ pc' = [pc EXCEPT ![s] = "bumping"]
    /\ UNCHANGED <<images, choices, app_round, app_state_kv, available,
                   recent_images, recent_pairs, issued_rounds, last, prev, start>>

\* the rest of get_next_pair once _bump_round has committed current_round
IssuePair(s, current_round) ==
    LET call == [NoCall EXCEPT !.op = "get_next_pair", !.svc = s,
                               !.round = current_round,
                               !.dup = (current_round \in issued_rounds)]
    IN
    /\ issued_rounds' = issued_rounds \cup {current_round}
    /\ IF Cardinality(available) < 2
       THEN /\ last' = call
            /\ UNCHANGED <<recent_images, recent_pairs>>
       ELSE \E explore, inject \in BOOLEAN :
            \E pools \in {apply_recent_suppression(
                             load_eligible_pools(images, current_round, available),
                             Range(recent_images[s]))} :
                \E pair \in select_pair(images, pools, recent_pairs[s],
                                        explore, inject) :
                  IF pair[1] = NoneId \/ pair[2] = NoneId
                  THEN /\ last' = [call EXCEPT !.explore = explore,
                                               !.inject = inject]
                       /\ UNCHANGED <<recent_images, recent_pairs>>
                  ELSE /\ last' = [call EXCEPT !.explore = explore,
                                               !.inject = inject,
                                               !.left = pair[1],
                                               !.right = pair[2]]
                       /\ recent_images' = [recent_images EXCEPT ![s] =
                              deque_append(
                                  deque_append(@, pair[1], recent_image_window),
                                  pair[2], recent_image_window)]
                       /\ recent_pairs' = [recent_pairs EXCEPT ![s] =
                              deque_append(@, pair_key(pair[1], pair[2]),
                                           recent_pair_window)]

\* get_next_pair from the commit of _bump_round to its return.  The insert of
\* a row that another request has inserted meanwhile violates the primary
\* key: db.commit() raises and the request fails.
GetNextPair(s) ==
    /\ UNCHANGED session
    /\ pc[s] = "bumping"
    /\ pc' = [pc EXCEPT ![s] = "idle"]
    /\ prev' = Store
    /\ app_state_read' = [app_state_read EXCEPT ![s] = Null]
    /\ IF app_state_read[s] = Null /\ app_round # Null
       THEN /\ last' = [NoCall EXCEPT !.op = "get_next_pair", !.svc = s,
                                      !.ok = FALSE]
            /\ UNCHANGED <<app_round, row_lock, recent_images, recent_pairs,
                           issued_rounds>>
       ELSE /\ app_round' = bump_round(app_state_read[s])
            /\ row_lock' = IF row_lock = s THEN "none" ELSE row_lock
            /\ IssuePair(s, bump_round(app_state_read[s]))
    /\ UNCHANGED <<images, choices, app_state_kv, available, start>>

\* PairingService.record_choice(round_num, left, right, outcome)
RecordChoice ==
    /\ UNCHANGED session
    /\ Len(choices) < start.choices + MaxChoices
    /\ \E left, right \in Ids, outcome \in Outcomes \cup {"INVALID"},
          round_num \in {Max2(get_current_round(Store) - 1, 0),
                         get_current_round(Store)},
          c_left, c_right \in generate_skip_cooldown, fail \in BOOLEAN :
        \E res \in {record_choice(Store, round_num, left, right, outcome,
                                  c_left, c_right, fail)} :
            /\ (outcome # "SKIP" \/ fail) =>
                   /\ c_left = skip_resurface_min_rounds
                   /\ c_right = skip_resurface_min_rounds
            /\ outcome = "INVALID" => ~fail
            /\ images' = res.db.images
            /\ choices' = res.db.choices
            /\ last' = IF res.ok
                       THEN [NoCall EXCEPT !.op = "record_choice",
                                           !.round = round_num, !.left = left,
                                           !.right = right, !.outcome = outcome]
                       ELSE [NoCall EXCEPT !.op = "record_choice",
                                           !.outcome = outcome, !.ok = FALSE]
    /\ prev' = Store
    /\ UNCHANGED <<app_round, app_state_kv, row_lock, available, recent_images,
                   recent_pairs, pc, app_state_read, issued_rounds, start>>

\* DirectoryChoiceService.record_choice as called by POST /choice, which has
\* checked the selection
DirectoryRecordChoice ==
    /\ UNCHANGED session
    /\ Len(choices) < start.choices + MaxChoices
    /\ \E left, right \in Ids, selection \in Outcomes,
          round_num \in {Max2(get_current_round(Store) - 1, 0),
                         get_current_round(Store)},
          c_left, c_right \in generate_skip_cooldown :
        \E res \in {directory_record_choice(Store, left, right, selection,
                                            round_num, c_left, c_right)} :
            /\ selection # "SKIP" =>
                   /\ c_left = skip_resurface_min_rounds
                   /\ c_right = skip_resurface_min_rounds
            /\ images' = res.db.images
            /\ choices' = res.db.choices
            /\ app_state_kv' = res.db.kv
            /\ last' = [NoCall EXCEPT !.op = "directory_record_choice",
                                      !.round = round_num, !.left = left,
                                      !.right = right, !.outcome = selection]
    /\ prev' = Store
    /\ UNCHANGED <<app_round, row_lock, available, recent_images, recent_pairs,
                   pc, app_state_read, issued_rounds, start>>

\* DirectoryService.get_image_pair_from_directory
GetImagePairFromDirectory ==
    /\ \E inject \in BOOLEAN :
       \E res \in get_image_pair_from_directory(Store, SetToSeq(available),
                                                inject) :
           /\ images' = res.db.images
           /\ app_state_kv' = res.db.kv
           /\ last' = [NoCall EXCEPT !.op = "get_image_pair_from_directory",
                                     !.round = res.round, !.inject = inject,
                                     !.left = res.pair[1], !.right = res.pair[2]]
    /\ prev' = Store
    /\ UNCHANGED <<choices, app_round, row_lock, available, recent_images,
                   recent_pairs, pc, app_state_read, issued_rounds, start,
                   session>>

\* ConvergenceService.get_convergence_state
GetConvergenceState ==
    /\ UNCHANGED session
    /\ \E r \in {convergence_get_current_round(Store)} :
           /\ app_round' = r.db.round
           /\ last' = [NoCall EXCEPT !.op = "get_convergence_state",
                                     !.round = r.round,
                                     !.auto_finish = get_convergence_state(r.db)]
    /\ prev' = Store
    /\ UNCHANGED <<images, choices, app_state_kv, row_lock, available,
                   recent_images, recent_pairs, pc, app_state_read,
                   issued_rounds, start>>

\* record_choice of session t up to db.commit(): the selects of
\* _get_or_create_image read the committed rows, the attribute writes stay in
\* the session
ChoiceLoad(t) ==
    /\ session[t].pc = "idle"
    /\ Len(choices) - start.choices
         + Cardinality({u \in Sessions : session[u].pc = "pending"})
           < MaxChoices * Cardinality(Sessions)
    /\ \E left, right \in Ids, outcome \in Outcomes,
          c_left, c_right \in generate_skip_cooldown :
        /\ left # right
        /\ outcome # "SKIP" =>
               /\ c_left = skip_resurface_min_rounds
               /\ c_right = skip_resurface_min_rounds
        /\ \E txn \in {record_choice_pending(Store, get_current_round(Store),
                                             left, right, outcome,
                                             c_left, c_right)} :
               session' = [session EXCEPT ![t] =
                   [pc |-> "pending",
                    choice |-> txn.s.choices[Len(txn.s.choices)],
                    loaded |-> rows_of(txn.c.images, {left, right}),
                    dirty |-> rows_of(txn.s.images, {left, right})]]
    /\ UNCHANGED <<images, choices, app_round, app_state_kv, row_lock,
                   available, recent_images, recent_pairs, pc, app_state_read,
                   issued_rounds, last, prev, start>>

\* db.commit() of session t's record_choice.  The INSERT of an image that
\* another session has inserted meanwhile violates the unique sha256: the
\* commit raises and nothing is written.
ChoiceCommit(t) ==
    LET inserted == DOMAIN session[t].dirty \ DOMAIN session[t].loaded
        call == [NoCall EXCEPT !.op = "record_choice", !.svc = t,
                               !.round = session[t].choice.round,
                               !.left = session[t].choice.left_sha256,
                               !.right = session[t].choice.right_sha256]
    IN
    /\ session[t].pc = "pending"
    /\ session' = [session EXCEPT ![t] = NoSession]
    /\ prev' = Store
    /\ IF inserted \cap DOMAIN images # {}
       THEN /\ last' = [call EXCEPT !.ok = FALSE]
            /\ UNCHANGED <<images, choices>>
       ELSE /\ images' = flush_images(images, session[t].loaded,
                                      session[t].dirty)
            /\ choices' = Append(choices, session[t].choice)
            /\ last' = [call EXCEPT !.outcome =
                           IF session[t].choice.skipped THEN "SKIP"
                           ELSE IF session[t].choice.winner_sha256
                                     = session[t].choice.left_sha256
                                THEN "LEFT" ELSE "RIGHT"]
    /\ UNCHANGED <<app_round, app_state_kv, row_lock, available, recent_images,
                   recent_pairs, pc, app_state_read, issued_rounds, start>>

\* POST /upload with n new files: an Image row with the defaults for each
UploadImages ==
    /\ Range(UploadIds) \cap DOMAIN images = {}
    /\ \E n \in {1, target_top_k, target_top_k + 1} :
           images' = [sha \in DOMAIN images \cup {UploadIds[i] : i \in 1..n} |->
                         IF sha \in DOMAIN images THEN images[sha]
                         ELSE new_image]
    /\ last' = [NoCall EXCEPT !.op = "upload_images"]
    /\ prev' = Store
    /\ UNCHANGED <<choices, app_round, app_state_kv, row_lock, available,
                   recent_images, recent_pairs, pc, app_state_read,
                   issued_rounds, start, session>>

\* ConvergenceService.get_portfolio_progress
GetPortfolioProgress ==
    /\ last' = [NoCall EXCEPT !.op = "get_portfolio_progress",
                              !.round = get_current_round(Store),
                              !.progress = get_portfolio_progress(Store)]
    /\ prev' = Store
    /\ UNCHANGED <<images, choices, app_round, app_state_kv, row_lock,
                   available, recent_images, recent_pairs, pc, app_state_read,
                   issued_rounds, start, session>>

\* _select_by_information_gain(pools["ACTIVE"]) on the pools of the table
SelectByInformationGain ==
    /\ \E pools \in {load_eligible_pools(images, get_current_round(Store),
                                          available)} :
       \E pair \in select_by_information_gain(images, pools.ACTIVE) :
           last' = [NoCall EXCEPT !.op = "select_by_information_gain",
                                  !.round = get_current_round(Store),
                                  !.left = pair[1], !.right = pair[2]]
    /\ prev' = Store
    /\ UNCHANGED <<images, choices, app_round, app_state_kv, row_lock,
                   available, recent_images, recent_pairs, pc, app_state_read,
                   issued_rounds, start, session>>

\* one PairingService serving pair requests and outcome submissions in turn
Next ==
    \/ NewService("s1")
    \/ BumpSelect("s1")
    \/ GetNextPair("s1")
    \/ RecordChoice
    \/ GetConvergenceState

Spec == Init /\ [][Next]_vars

\* the services as the routes call them: GET /pair builds a PairingService
\* for each request, POST /choice calls the DirectoryChoiceService
DirectoryNext ==
    \/ NewService("s1")
    \/ BumpSelect("s1")
    \/ GetNextPair("s1")
    \/ DirectoryRecordChoice

SpecDirectory == Init /\ [][DirectoryNext]_vars

\* pair requests of concurrent sessions, each with its own PairingService
ConcurrentNext ==
    \/ \E s \in Services : NewService(s)
    \/ \E s \in Services : BumpSelect(s)
    \/ \E s \in Services : GetNextPair(s)

SpecConcurrent == Init /\ [][ConcurrentNext]_vars

\* outcome submissions of concurrent database sessions
ConcurrentChoicesNext ==
    \/ \E t \in Sessions : ChoiceLoad(t)
    \/ \E t \in Sessions : ChoiceCommit(t)

SpecConcurrentChoices == Init /\ [][ConcurrentChoicesNext]_vars

\* uploads, outcome submissions and progress queries
ProgressNext ==
    \/ UploadImages
    \/ RecordChoice
    \/ GetPortfolioProgress

SpecProgress == Init /\ [][ProgressNext]_vars

\* the directory-based services: pair requests and outcome submissions
DirectoryPairNext ==
    \/ GetImagePairFromDirectory
    \/ DirectoryRecordChoice

SpecDirectoryPair == InitDirectory /\ [][DirectoryPairNext]_vars

\* outcome submissions and convergence queries on a covered store
ConvergenceNext ==
    \/ RecordChoice
    \/ GetConvergenceState

SpecConvergence == InitCovered /\ [][ConvergenceNext]_vars

\* the information-gain selection applied to rated tables
SpecShortlist == InitRated /\ [][SelectByInformationGain]_vars

\* --------------------------------------------------------------- properties
\* the image a store holds for sha, with the defaults of lazy creation
item(db, sha) == create_unseen_image(db.images, sha)

\* the last step was a pair request that returned a pair
PairIssued == last.op = "get_next_pair" /\ last.ok /\ last.left # NoneId

\* the last step was a decision recorded by the pairing service
Recorded == last.op = "record_choice" /\ last.ok

\* C1: a pair returned by get_next_pair never has the same id on its left and
\* on its right, whichever branch of the selection produced it.
C1_NoSelfPair == PairIssued => last.left # last.right

\* a pair produced by skip injection: not explored, injected, one side skipped
C1_Witness ==
    /\ PairIssued /\ ~last.explore /\ last.inject
    /\ \E x \in {last.left, last.right} \cap DOMAIN images :
           images[x].exposures > 0 /\ images[x].next_eligible_round # Null

\* the recent-pair window of the serving PairingService before the pair of
\* the last step was appended to it
RecentPairsBefore ==
    LET q == recent_pairs[last.svc] IN Range(SubSeq(q, 1, Len(q) - 1))

\* C2: a pair returned by get_next_pair has an unordered key that was not in
\* the recent-pair window when it was selected, whichever branch produced it.
C2_NoRecentPair ==
    PairIssued => pair_key(last.left, last.right) \notin RecentPairsBefore

\* the rounds at which the classification of some image changes
RoundsOfInterest ==
    {0, get_current_round(Store)} \cup
    UNION {{n - 1, n} : n \in {images[x].next_eligible_round :
                                  x \in DOMAIN images} \ {Null}}

Archived ==
    {sha \in available \cap DOMAIN images : images[sha].is_archived_hard_no}

PoolNames == DOMAIN EmptyPools

\* C3: at every round the four pools of _load_eligible_pools hold each id at
\* most once, are pairwise disjoint and disjoint from the archived ids, and
\* together with the archived ids they make up the working set.
C3_PoolsPartition ==
    \A r \in RoundsOfInterest :
        \A pools \in {load_eligible_pools(images, r, available)} :
            /\ \A n \in PoolNames : Cardinality(Range(pools[n])) = Len(pools[n])
            /\ \A n, m \in PoolNames :
                   n # m => Range(pools[n]) \cap Range(pools[m]) = {}
            /\ \A n \in PoolNames : Range(pools[n]) \cap Archived = {}
            /\ UNION {Range(pools[n]) : n \in PoolNames} \cup Archived = available

\* a pair request served with an archived, an active and a cooling image
C3_Witness ==
    /\ last.op = "get_next_pair" /\ last.ok /\ Archived # {}
    /\ \E pools \in {load_eligible_pools(images, last.round, available)} :
           pools.ACTIVE # <<>> /\ pools.SKIPPED_COOLDOWN # <<>>

\* C4: the round counter never decreases, a pair request raises it by one
\* exactly when it returns a pair, and recording a decision leaves it alone.
C4_RoundOncePerPair ==
    /\ get_current_round(Store) >= get_current_round(prev)
    /\ (last.op = "get_next_pair" /\ last.ok) =>
           get_current_round(Store) =
               get_current_round(prev) + (IF last.left # NoneId THEN 1 ELSE 0)
    /\ last.op = "record_choice" => app_round = prev.round

\* C5: under concurrent pair requests no request is answered with a round
\* number given out before, and no request fails on the counter row.
C5_BumpLinearizable == last.op = "get_next_pair" => (last.ok /\ ~last.dup)

\* C6: after a recorded LEFT or RIGHT each of the two images has a sigma no
\* greater than before, smaller unless it was at sigma_min, and one exposure
\* more.
C6_DecisiveOutcome ==
    (Recorded /\ last.outcome \in {"LEFT", "RIGHT"}) =>
        \A x \in {last.left, last.right} :
            /\ images[x].sigma <= item(prev, x).sigma
            /\ item(prev, x).sigma > sigma_min * Scale =>
                   images[x].sigma < item(prev, x).sigma
            /\ images[x].exposures = item(prev, x).exposures + 1

\* the counter the recording service read as the current round
RoundRead ==
    IF last.op = "record_choice" THEN get_current_round(prev)
    ELSE IF prev.kv = Null THEN 0 ELSE prev.kv

\* C7: after a recorded SKIP neither image's mu, sigma or exposures changed,
\* each has one skip more, and each has a next_eligible_round above the
\* current round and at most skip_resurface_max_rounds above it.
C7_SkipOutcome ==
    (/\ last.op \in {"record_choice", "directory_record_choice"}
     /\ last.ok /\ last.outcome = "SKIP") =>
        \A x \in {last.left, last.right} :
            /\ images[x].mu = item(prev, x).mu
            /\ images[x].sigma = item(prev, x).sigma
            /\ images[x].exposures = item(prev, x).exposures
            /\ images[x].skips = item(prev, x).skips + 1
            /\ images[x].next_eligible_round > RoundRead
            /\ images[x].next_eligible_round
                   <= RoundRead + skip_resurface_max_rounds

\* C8: every image row has a sigma of at least sigma_min.
C8_SigmaFloor ==
    \A sha \in DOMAIN images : images[sha].sigma >= sigma_min * Scale

\* a decisive outcome has just brought an image down to sigma_min
C8_Witness ==
    /\ Recorded /\ last.outcome \in {"LEFT", "RIGHT"}
    /\ images[last.left].sigma = sigma_min * Scale
    /\ item(prev, last.left).sigma > sigma_min * Scale

\* C9: a record_choice that raises, on an unknown outcome or in the middle of
\* its update, leaves images, choices and both counters as they were.
C9_FailedRecordKeepsStore ==
    (last.op = "record_choice" /\ ~last.ok) => Store = prev

\* a call failed in mid-update after it had to create both image rows
C9_Witness ==
    /\ last.op = "record_choice" /\ ~last.ok /\ last.outcome \in Outcomes
    /\ DOMAIN images = {}

\* C10: with coverage_required, get_convergence_state does not decide to
\* finish while an image of the working set, with or without a row, has no
\* exposure.
C10_NoFinishWhileUnseen ==
    (/\ last.op = "get_convergence_state" /\ coverage_required
     /\ \E x \in available \cup DOMAIN images : item(Store, x).exposures = 0) =>
        ~last.auto_finish

CountChoices(Test(_)) == Cardinality({i \in 1..Len(choices) : Test(choices[i])})

shown(ch, sha) == sha \in {ch.left_sha256, ch.right_sha256}

\* C12: once every outcome submission has committed, each image's exposures,
\* likes, unlikes and skips count the decisions of the choices table that
\* involve it, whatever the interleaving of the sessions was.
C12_NoLostCounterUpdate ==
    (\A t \in Sessions : session[t].pc = "idle") =>
        \A sha \in DOMAIN images :
            /\ images[sha].exposures =
                   CountChoices(LAMBDA ch : shown(ch, sha) /\ ~ch.skipped)
            /\ images[sha].likes =
                   CountChoices(LAMBDA ch : ch.winner_sha256 = sha)
            /\ images[sha].unlikes =
                   CountChoices(LAMBDA ch : /\ shown(ch, sha) /\ ~ch.skipped
                                           /\ ch.winner_sha256 # sha)
            /\ images[sha].skips =
                   CountChoices(LAMBDA ch : shown(ch, sha) /\ ch.skipped)
\* the ids of the pools a pair can be drawn from at round r
EligibleAt(r) ==
    LET pools == load_eligible_pools(images, r, available)
    IN  Range(pools.UNSEEN) \cup Range(pools.ACTIVE)
            \cup Range(pools.SKIPPED_ELIGIBLE)

\* the last step was a pair request that returned without raising
PairRequested == last.op = "get_next_pair" /\ last.ok

\* C13: a pair request made while at least two ids of the working set are
\* eligible (UNSEEN, ACTIVE or SKIPPED_ELIGIBLE, not archived) returns a pair.
C13_PairWhenTwoEligible ==
    (PairRequested /\ Cardinality(EligibleAt(last.round)) >= 2) =>
        last.left # NoneId /\ last.right # NoneId

\* C14: a pair request made while fewer than two ids are eligible returns
\* (None, None) without raising, and a pair request over a working set of
\* exactly two UNSEEN ids returns those two ids.
C14_NoneBelowTwoEligible ==
    last.op = "get_next_pair" =>
        /\ Cardinality(EligibleAt(last.round)) < 2 =>
               last.ok /\ last.left = NoneId /\ last.right = NoneId
        /\ (/\ Cardinality(available) = 2
            /\ Range(load_eligible_pools(images, last.round, available).UNSEEN)
                   = available) =>
               last.ok /\ {last.left, last.right} = available

\* two UNSEEN ids served a second time by the same service
C14_WitnessTwoUnseen ==
    /\ PairIssued /\ Cardinality(available) = 2
    /\ Range(load_eligible_pools(images, last.round, available).UNSEEN) = available
    /\ Len(recent_pairs[last.svc]) = 2

\* a request over three ids of which one is eligible returned no pair
C14_WitnessNone ==
    /\ PairRequested /\ last.left = NoneId /\ Cardinality(available) = 3
    /\ Cardinality(EligibleAt(last.round)) = 1

\* C15: both ids of a pair returned by get_next_pair are hashes of the
\* directory and neither is archived.
C15_PairAvailableNotArchived ==
    PairIssued =>
        /\ {last.left, last.right} \subseteq available
        /\ {last.left, last.right} \cap Archived = {}

\* a pair drawn by exploration while an image is archived and rows exist
\* for every id
C15_Witness ==
    /\ PairIssued /\ last.explore /\ Archived # {}
    /\ available \subseteq DOMAIN images
\* C16: a recorded decision leaves the earlier rows of the choices table as
\* they were and appends one row for the call; in every row skipped says
\* that the outcome was SKIP, the winner is missing exactly when skipped, and
\* otherwise it is the left id for LEFT and the right id for RIGHT.
C16_OneChoiceAppended ==
    /\ Recorded =>
          /\ Len(choices) = Len(prev.choices) + 1
          /\ SubSeq(choices, 1, Len(prev.choices)) = prev.choices
          /\ \E d \in {choices[Len(choices)]} :
                 /\ d.round = last.round
                 /\ d.left_sha256 = last.left /\ d.right_sha256 = last.right
                 /\ d.skipped <=> last.outcome = "SKIP"
                 /\ last.outcome = "LEFT" => d.winner_sha256 = last.left
                 /\ last.outcome = "RIGHT" => d.winner_sha256 = last.right
    /\ \A i \in 1..Len(choices) :
          /\ choices[i].skipped <=> choices[i].winner_sha256 = NoneId
          /\ ~choices[i].skipped =>
                 choices[i].winner_sha256 \in
                     {choices[i].left_sha256, choices[i].right_sha256}

\* a skip recorded after earlier decisions
C16_Witness ==
    Recorded /\ last.outcome = "SKIP" /\ Len(prev.choices) > 0

\* C18: a recorded LEFT or RIGHT leaves both images with last_seen_round
\* equal to the round argument of the call, and a recorded SKIP leaves each
\* image with next_eligible_round between that round + 11 and that round + 49.
C18_StampsRoundArgument ==
    Recorded =>
        \A x \in {last.left, last.right} :
            IF last.outcome = "SKIP"
            THEN images[x].next_eligible_round \in
                     (last.round + skip_resurface_min_rounds)
                         ..(last.round + skip_resurface_max_rounds)
            ELSE images[x].last_seen_round = last.round

\* after is the deque before with n entries appended at its end
Pushed(before, after, n, maxlen) ==
    /\ n <= Len(after) /\ Len(after) <= maxlen
    /\ \E all \in {before \o SubSeq(after, Len(after) - n + 1, Len(after))} :
           after = SubSeq(all, Max2(1, Len(all) - maxlen + 1), Len(all))

\* C19: from one step to the next each recency window of a service keeps
\* its entries in order and only gains entries at its end, dropping its
\* oldest entries only to stay within its capacity.
C19_WindowsPersist ==
    [][\A s \in Services :
          /\ \E n \in 0..2 : Pushed(recent_images[s], recent_images'[s], n,
                                    recent_image_window)
          /\ \E n \in 0..1 : Pushed(recent_pairs[s], recent_pairs'[s], n,
                                    recent_pair_window)]_vars

\* C20: no id of a pair returned by get_next_pair at round r has a row with
\* next_eligible_round set and r < next_eligible_round.
C20_NoPairInCooldown ==
    PairIssued =>
        \A x \in {last.left, last.right} \cap DOMAIN images :
            ~(/\ images[x].next_eligible_round # Null
              /\ last.round < images[x].next_eligible_round)
\* C17: the overall progress and the coverage, exposure, confidence and
\* stability progress returned by get_portfolio_progress lie between 0 and
\* 100 percent.
C17_ProgressInRange ==
    last.op = "get_portfolio_progress" =>
        /\ last.progress.overall_progress \in 0..(100 * Scale)
        /\ \A c \in DOMAIN last.progress.components :
               last.progress.components[c] \in 0..(100 * Scale)
\* the item window of the serving PairingService before the last pair request
RecentImagesBefore ==
    LET q == recent_images[last.svc]
    IN  IF PairIssued THEN Range(SubSeq(q, 1, Len(q) - 2)) ELSE Range(q)

\* the pools the last pair request selected from
PoolsOfRequest ==
    apply_recent_suppression(
        load_eligible_pools(images, last.round, available), RecentImagesBefore)

\* C21: a pair returned while SKIPPED_ELIGIBLE was non-empty and the skip
\* injection draw fired has a SKIPPED_ELIGIBLE image on one of its sides,
\* whether exploration, coverage-first or information gain chose the pair.
C21_InjectionInEveryBranch ==
    (/\ PairIssued /\ last.inject
     /\ PoolsOfRequest.SKIPPED_ELIGIBLE # <<>>) =>
        {last.left, last.right} \cap Range(PoolsOfRequest.SKIPPED_ELIGIBLE) # {}
\* 20 times sigma - |mu - median| / 10, the median over the images of pool
ActiveScore20(pool, sha) ==
    20 * images[sha].sigma - Abs(2 * images[sha].mu - median2(images, pool))

\* C22: a pair returned without exploration while UNSEEN was non-empty has
\* an UNSEEN image on its left; with ACTIVE non-empty its right is an ACTIVE
\* image of maximal sigma - |mu - median ACTIVE mu| / 10, and with ACTIVE
\* empty both sides are UNSEEN images, different from each other.
C22_CoverageFirst ==
    (PairIssued /\ ~last.explore /\ PoolsOfRequest.UNSEEN # <<>>) =>
        \E pools \in {PoolsOfRequest} :
            /\ last.left \in Range(pools.UNSEEN)
            /\ IF pools.ACTIVE # <<>>
               THEN /\ last.right \in Range(pools.ACTIVE)
                    /\ \A other \in Range(pools.ACTIVE) :
                           ActiveScore20(pools.ACTIVE, last.right)
                               >= ActiveScore20(pools.ACTIVE, other)
               ELSE /\ last.right \in Range(pools.UNSEEN)
                    /\ last.right # last.left

\* an UNSEEN image paired with the better of two ACTIVE images whose scores
\* differ
C22_Witness ==
    /\ PairIssued /\ ~last.explore /\ PoolsOfRequest.UNSEEN # <<>>
    /\ \E x, y \in Range(PoolsOfRequest.ACTIVE) :
           ActiveScore20(PoolsOfRequest.ACTIVE, x)
               > ActiveScore20(PoolsOfRequest.ACTIVE, y)
\* the ACTIVE pool the last information-gain selection was given
GainPool ==
    IF last.op = "select_by_information_gain"
    THEN load_eligible_pools(images, last.round, available).ACTIVE
    ELSE PoolsOfRequest.ACTIVE

\* pool[i] sorts before pool[j]: larger sigma, then mu nearer to the median
\* of the pool, then the earlier position
SortsBefore(pool, med2, i, j) ==
    LET a == images[pool[i]]
        b == images[pool[j]]
        da == Abs(2 * a.mu - med2)
        db == Abs(2 * b.mu - med2)
    IN  \/ a.sigma > b.sigma
        \/ a.sigma = b.sigma /\ da < db
        \/ a.sigma = b.sigma /\ da = db /\ i < j

\* the first shortlist_k images of the pool in that order, or the pool itself
\* if it has no more than shortlist_k images
RankedShortlist(pool) ==
    IF Len(pool) <= shortlist_k THEN pool
    ELSE LET med2 == median2(images, pool) IN
         Then({<<i, Cardinality({j \in 1..Len(pool) :
                                   SortsBefore(pool, med2, j, i)})>> :
                  i \in 1..Len(pool)},
              LAMBDA placed :
                  [r \in 1..shortlist_k |->
                      pool[(CHOOSE p \in placed : p[2] = r - 1)[1]]])

\* avgUncertainty / (1 + |meanDiff| / 100) of x and y is greater than that of
\* u and v, resp. equal to it
GainGreater(x, y, u, v) ==
    ratio_greater(images[x].sigma + images[y].sigma,
                  100 * Scale + Abs(images[x].mu - images[y].mu),
                  images[u].sigma + images[v].sigma,
                  100 * Scale + Abs(images[u].mu - images[v].mu))

GainEqual(x, y, u, v) == ~GainGreater(x, y, u, v) /\ ~GainGreater(u, v, x, y)

\* the last step selected by information gain alone
GainSelected ==
    \/ last.op = "select_by_information_gain"
    \/ /\ PairIssued /\ ~last.explore /\ ~last.inject
       /\ PoolsOfRequest.UNSEEN = <<>> /\ Len(PoolsOfRequest.ACTIVE) >= 2

\* C23: a pair selected by information gain is made of two images of the
\* shortlist (the ACTIVE pool, or its first shortlist_k images by sigma
\* descending, then closeness of mu to the ACTIVE median), no pair of the
\* shortlist has a greater gain, and every pair of equal gain comes later in
\* the (i < j) iteration over the shortlist.
C23_FirstHighestGain ==
    GainSelected =>
        \E shortlist \in {RankedShortlist(GainPool)} :
        \E i, j \in 1..Len(shortlist) :
            /\ i < j
            /\ shortlist[i] = last.left /\ shortlist[j] = last.right
            /\ \A p, q \in 1..Len(shortlist) :
                   p < q =>
                       /\ ~GainGreater(shortlist[p], shortlist[q],
                                       last.left, last.right)
                       /\ GainEqual(shortlist[p], shortlist[q],
                                    last.left, last.right) =>
                              (p > i \/ (p = i /\ q >= j))

\* a selection from more ACTIVE images than the shortlist holds: a pair of
\* the whole pool has a greater gain than the selected pair, and another
\* pair of the shortlist has the same gain
C23_Witness ==
    /\ last.op = "select_by_information_gain"
    /\ Len(GainPool) > shortlist_k
    /\ \E x, y \in Range(GainPool) :
           x # y /\ GainGreater(x, y, last.left, last.right)
    /\ \E shortlist \in {RankedShortlist(GainPool)} :
           \E x, y \in Range(shortlist) :
               /\ x # y /\ {x, y} # {last.left, last.right}
               /\ GainEqual(x, y, last.left, last.right)

\* C24: the decision log holds at most one Decision per presented pair: the
\* Decisions appended by outcome submissions have pairwise different rounds,
\* different from those of the Decisions already in the log, and each of
\* them has the round of a pair that a pair request returned.
C24_OneDecisionPerIssuedPair ==
    \A i \in (start.choices + 1)..Len(choices) :
        /\ choices[i].round \in issued_rounds
        /\ \A j \in 1..Len(choices) :
               j # i => choices[j].round # choices[i].round

\* C25: an image row with exposures = 0 is still at its defaults: mu is
\* initial_mu, sigma is initial_sigma, likes and unlikes are 0.
C25_UnratedAtDefaults ==
    \A sha \in DOMAIN images :
        images[sha].exposures = 0 =>
            /\ images[sha].mu = initial_mu * Scale
            /\ images[sha].sigma = initial_sigma * Scale
            /\ images[sha].likes = 0
            /\ images[sha].unlikes = 0

\* a recorded SKIP of an image that was never rated: it has a skip and a
\* cooldown, and no exposure
C25_Witness ==
    /\ Recorded /\ last.outcome = "SKIP"
    /\ images[last.left].exposures = 0
    /\ images[last.left].skips > 0
    /\ images[last.left].next_eligible_round # Null

\* the images ranked within 3 places of the target_top_k boundary
BoundaryRanked ==
    Then(get_ordered_images(images), LAMBDA ordered_images :
        {ordered_images[i] :
            i \in ((target_top_k - 3)..(target_top_k + 3))
                      \cap DOMAIN ordered_images})

\* C26: auto-finish is never decided while an image ranked within
\* target_top_k - 3 .. target_top_k + 3 has fewer than
\* min_exposures_per_image exposures.
C26_NoAutoFinishBelowFloor ==
    (last.op = "get_convergence_state" /\ last.auto_finish) =>
        \A sha \in BoundaryRanked :
            images[sha].exposures >= min_exposures_per_image

\* the last step was a pair request, served by either service
PairRequestOps == {"get_next_pair", "get_image_pair_from_directory"}

\* the last step was an outcome submission, recorded by either service
RecordOps == {"record_choice", "directory_record_choice"}

\* C27: a pair request changes neither an image row nor the decision log and
\* creates no image row; an image row is created only by an outcome
\* submission that names it.
C27_PairRequestFrame ==
    [][/\ last'.op \in PairRequestOps =>
              (images' = images /\ choices' = choices)
       /\ DOMAIN images' # DOMAIN images =>
              /\ last'.op \in RecordOps
              /\ (DOMAIN images' \ DOMAIN images) \subseteq {last'.left, last'.right}
      ]_vars

\* C28: every image row has exposures = likes + unlikes, whatever outcomes
\* were recorded and whichever ids they named.
C28_ExposuresAreLikesPlusUnlikes ==
    \A sha \in DOMAIN images :
        images[sha].exposures = images[sha].likes + images[sha].unlikes

\* a decisive outcome recorded for an image against itself
C28_Witness ==
    /\ Recorded /\ last.outcome \in {"LEFT", "RIGHT"}
    /\ last.left = last.right
    /\ images[last.left].exposures >= 2
    /\ images[last.left].unlikes >= 1

\* C29: the counters of every image agree with the decision log: likes is
\* the number of Decisions it won, unlikes the number of Decisions that were
\* not skipped, contain it and were not won by it, and skips the number of
\* sides it has in skipped Decisions.
C29_CountersMatchLog ==
    \A sha \in DOMAIN images :
        /\ images[sha].likes = CountChoices(LAMBDA ch : ch.winner_sha256 = sha)
        /\ images[sha].unlikes =
               CountChoices(LAMBDA ch : /\ ~ch.skipped /\ shown(ch, sha)
                                       /\ ch.winner_sha256 # sha)
        /\ images[sha].skips =
               CountChoices(LAMBDA ch : ch.skipped /\ ch.left_sha256 = sha)
               + CountChoices(LAMBDA ch : ch.skipped /\ ch.right_sha256 = sha)

\* the rated images of the working set that a skip has put on cooldown
Cooling ==
    {sha \in (available \cap DOMAIN images) \ Archived :
        /\ images[sha].exposures > 0
        /\ images[sha].next_eligible_round # Null}

\* sha is in the pool of that name at round r
InPool(name, sha, r) ==
    sha \in Range(load_eligible_pools(images, r, available)[name])

\* at every round an image on cooldown is SKIPPED_COOLDOWN or
\* SKIPPED_ELIGIBLE, and right after its skip at counter r it is
\* SKIPPED_ELIGIBLE from round r + skip_resurface_max_rounds on
CooldownClassified ==
    /\ \A sha \in Cooling :
       \A r \in RoundsOfInterest \cup {Max2(last.round, 0)} :
           /\ ~InPool("ACTIVE", sha, r) /\ ~InPool("UNSEEN", sha, r)
           /\ InPool("SKIPPED_COOLDOWN", sha, r)
                  \/ InPool("SKIPPED_ELIGIBLE", sha, r)
    /\ (Recorded /\ last.outcome = "SKIP") =>
           \A sha \in {last.left, last.right} \cap Cooling :
           \A later \in 0..1 :
               InPool("SKIPPED_ELIGIBLE", sha,
                      get_current_round(Store) + skip_resurface_max_rounds
                          + later)

\* a step that clears a next_eligible_round records a decisive outcome for
\* that image
ClearedByDecisiveOutcome ==
    \A sha \in DOMAIN images :
        (/\ images[sha].next_eligible_round # Null
         /\ images'[sha].next_eligible_round = Null) =>
            /\ last'.op = "record_choice"
            /\ last'.outcome \in {"LEFT", "RIGHT"}
            /\ sha \in {last'.left, last'.right}

\* C30: a rated image that was skipped when the counter was r is never
\* ACTIVE while its next_eligible_round is set: pair requests classify it
\* SKIPPED_COOLDOWN or SKIPPED_ELIGIBLE, and SKIPPED_ELIGIBLE at every round
\* from r + 49 on; only a decisive outcome for it clears next_eligible_round.
C30_CooldownBounded == []CooldownClassified /\ [][ClearedByDecisiveOutcome]_vars

\* a pair request made when the cooldown of a rated image was over: the
\* image is SKIPPED_ELIGIBLE at the round of the request
C30_Witness ==
    /\ PairRequested
    /\ \E sha \in Cooling :
           /\ last.round >= images[sha].next_eligible_round
           /\ InPool("SKIPPED_ELIGIBLE", sha, last.round)

\* a skip of a rated image was recorded
C30_WitnessSkip ==
    /\ Recorded /\ last.outcome = "SKIP"
    /\ {last.left, last.right} \cap Cooling # {}

====
